---------------------------- MODULE Spec2Model ----------------------------
(***************************************************************************)
(* Model of the foodgram backend (backend/api, backend/recipes): the       *)
(* relational store (users, recipes with their tag set and ingredient      *)
(* amount records, Favorite, ShoppingCart and Subscription rows) and the   *)
(* HTTP handlers of api/views.py that read and write it.  Each handler is  *)
(* one action; `last' is the request just served and its response.         *)
(***************************************************************************)
EXTENDS Integers, Sequences, FiniteSets, Bags, TLC

(***************************************************************************)
(* Bounds of the model.                                                    *)
(***************************************************************************)
NumUsers == 3
MaxRecipes == 2
\* the longest shopping list handed to the document renderer
MaxRows == 30

Anonymous == 0
Users == 1..NumUsers
RecipeIds == 1..MaxRecipes
\* a primary key no Recipe row has, and one no User row has
MissingPk == MaxRecipes + 1
MissingUser == NumUsers + 1

(***************************************************************************)
(* Reference data: the Tag and Ingredient catalogues.                      *)
(***************************************************************************)
Tags == {1, 2}

Ingredients ==
    (1 :> [name |-> "flour", measurement_unit |-> "g"]) @@
    (2 :> [name |-> "egg", measurement_unit |-> "pc"]) @@
    (3 :> [name |-> "flour", measurement_unit |-> "cup"])

\* the users with is_staff set
Staff == {1}

(***************************************************************************)
(* Attribute names a Recipe instance resolves.  The ForeignKey             *)
(* RecipeIngredientAmount.recipe declares no related_name, so the reverse  *)
(* manager of the amount records is recipeingredientamount_set; likewise   *)
(* for the Favorite and ShoppingCart rows.                                 *)
(***************************************************************************)
RecipeAttributes ==
    {"tags", "pub_date", "author", "ingredients", "name", "image", "text",
     "cooking_time", "recipeingredientamount_set", "favorite_set",
     "shoppingcart_set"}

HasAttr(attr) == attr \in RecipeAttributes

VARIABLES
    passwords,      \* user -> stored password hash
    recipes,        \* recipe pk -> [author, name, tags, amounts]
    nextId,         \* next primary key of the Recipe table
    Favorite,       \* Favorite rows <<user, recipe>>, a bag
    ShoppingCart,   \* ShoppingCart rows <<user, recipe>>, a bag
    Subscription,   \* Subscription rows <<user, author>>, a bag
    last,           \* the request just served and its response
    inflight        \* worker -> the request it is serving, step by step

vars == <<passwords, recipes, nextId, Favorite, ShoppingCart, Subscription,
          last, inflight>>

store == <<passwords, recipes, nextId, Favorite, ShoppingCart, Subscription>>

(***************************************************************************)
(* Passwords: set_password stores a hash, check_password compares the hash *)
(* of the raw password with the stored one.                                *)
(***************************************************************************)
\* raw passwords: the one each user starts with, and one nobody starts with
RawPasswords == 1..(NumUsers + 1)

make_password(raw) == <<"hash", raw>>

check_password(u, raw) == passwords[u] = make_password(raw)

\* the User table: the pks of the stored users
UserExists(pk) == pk \in DOMAIN passwords

\* UserWriteSerializer.create refuses a password another user has: the
\* users start with passwords of their own
InitialPassword(u) == u

(***************************************************************************)
(* Responses.                                                              *)
(***************************************************************************)
Request(op, method, u, pk, args) ==
    [op |-> op, method |-> method, user |-> u, pk |-> pk, args |-> args]

\* the request with its response: the status, the key of an error body,
\* the rows of a list or document body
Respond(req, status, key, data) ==
    [op |-> req.op, method |-> req.method, user |-> req.user, pk |-> req.pk,
     args |-> req.args, status |-> status, key |-> key, data |-> data]

Response(op, method, u, pk, status, key, data) ==
    Respond(Request(op, method, u, pk, <<>>), status, key, data)

NoRequest == Response("none", "none", Anonymous, 0, 0, "", {})

\* permission_denied: NotAuthenticated for a request without credentials,
\* PermissionDenied otherwise
PermissionDenied(u) == IF u = Anonymous THEN 401 ELSE 403

\* the request workers, and a worker serving nothing
Workers == {"w1", "w2"}

Idle == [op |-> "none", method |-> "none", user |-> Anonymous, pk |-> 0,
         pc |-> "idle", status |-> 0]

Init ==
    /\ passwords = [u \in Users |-> make_password(InitialPassword(u))]
    /\ recipes = <<>>
    /\ nextId = 1
    /\ Favorite = EmptyBag
    /\ ShoppingCart = EmptyBag
    /\ Subscription = EmptyBag
    /\ last = NoRequest
    /\ inflight = [w \in Workers |-> Idle]


(***************************************************************************)
(* Recipe write payloads (RecipeWriteSerializer): name, tags as a list of  *)
(* tag ids, ingredients as a list of {id, amount}.                         *)
(***************************************************************************)
Payload(name, tags, ingredients) ==
    [name |-> name, tags |-> tags, ingredients |-> ingredients]

Item(id, amount) == [id |-> id, amount |-> amount]

\* an Ingredient pk that is not in the catalogue
MissingIngredient == Cardinality(DOMAIN Ingredients) + 1

\* payloads the serializer accepts and every ingredient of which exists
GoodPayloads ==
    { Payload("soup", <<1>>, <<Item(1, 2)>>),
      Payload("cake", <<2, 1>>, <<Item(1, 1), Item(2, 2)>>),
      Payload("stew", <<2>>, <<Item(2, 1), Item(3, 1), Item(2, 1)>>) }

\* one naming a missing ingredient, one a missing tag, one an amount of 0
BadPayloads ==
    { Payload("cake", <<1>>, <<Item(3, 1), Item(MissingIngredient, 1)>>),
      Payload("soup", <<3>>, <<Item(1, 1)>>),
      Payload("soup", <<1>>, <<Item(1, 0)>>) }

RecipePayloads == GoodPayloads \cup BadPayloads

Range(seq) == { seq[i] : i \in DOMAIN seq }

\* serializer.is_valid: every tag pk is a Tag (PrimaryKeyRelatedField over
\* Tag.objects.all()), every amount passes MinValueValidator(1)
is_valid(p) ==
    /\ Range(p.tags) \subseteq Tags
    /\ \A i \in DOMAIN p.ingredients : p.ingredients[i].amount >= 1

\* get_amounts: get_object_or_404(Ingredient, id=...) for every item
AmountsFound(ingredients_data) ==
    \A i \in DOMAIN ingredients_data :
        ingredients_data[i].id \in DOMAIN Ingredients

get_amounts(ingredients_data) ==
    [i \in DOMAIN ingredients_data |->
        [ingredient |-> ingredients_data[i].id,
         amount |-> ingredients_data[i].amount]]

Exists(pk) == pk \in DOMAIN recipes

\* IsOwner.has_object_permission
IsOwner(u, obj) == obj.author = u

\* permissions.IsAuthenticated.has_permission
IsAuthenticated(u) == u # Anonymous

\* RecipeViewSet.get_permissions, as the pair (has_permission,
\* has_object_permission) of the permission class the action gets
HasPermission(action, u) ==
    IF action \in {"list", "retrieve"} THEN TRUE
    ELSE IF action \in {"partial_update", "destroy"} THEN TRUE
    ELSE IsAuthenticated(u)

HasObjectPermission(action, u, obj) ==
    IF action \in {"list", "retrieve"} THEN TRUE
    ELSE IF action \in {"partial_update", "destroy"} THEN IsOwner(u, obj)
    ELSE TRUE

\* a delete that leaves the referencing rows
KeepRows(table, pk) == table

\* rows of a (user, target) table that do not reference target pk
WithoutTarget(table, pk) ==
    [row \in {x \in DOMAIN table : x[2] # pk} |-> table[row]]

Without(f, k) == [x \in DOMAIN f \ {k} |-> f[x]]

(***************************************************************************)
(* The read form of a recipe (RecipeSerializer): the author, the name, the *)
(* tags and one entry per amount record, with the id, name and measurement *)
(* unit of the record's ingredient and the record's amount.                *)
(***************************************************************************)
RecipeIngredientAmountSerializer(record) ==
    [id |-> record.ingredient,
     name |-> Ingredients[record.ingredient].name,
     measurement_unit |-> Ingredients[record.ingredient].measurement_unit,
     amount |-> record.amount]

RecipeSerializer(instance) ==
    [author |-> instance.author, name |-> instance.name,
     tags |-> instance.tags,
     ingredients |-> [i \in DOMAIN instance.amounts |->
                        RecipeIngredientAmountSerializer(instance.amounts[i])]]

\* RecipeWriteSerializer.to_representation
to_representation(instance) == RecipeSerializer(instance)

(***************************************************************************)
(* POST /recipes/ : perform_create and RecipeWriteSerializer.create.       *)
(***************************************************************************)
CreateRecipe(u, p) ==
    LET req(pk) == Request("recipe", "POST", u, pk, p)
    IN
    /\ nextId <= MaxRecipes
    /\ UNCHANGED <<passwords, Favorite, ShoppingCart, Subscription, inflight>>
    /\ IF ~HasPermission("create", u)
       THEN /\ last' = Respond(req(0), PermissionDenied(u), "detail", {})
            /\ UNCHANGED <<recipes, nextId>>
       ELSE IF ~is_valid(p)
       THEN /\ last' = Respond(req(0), 400, "field", {})
            /\ UNCHANGED <<recipes, nextId>>
       ELSE LET created == [author |-> u, name |-> p.name,
                            tags |-> {}, amounts |-> <<>>]
                recipe == [created EXCEPT
                             !.amounts = get_amounts(p.ingredients),
                             !.tags = Range(p.tags)]
            IN /\ nextId' = nextId + 1
               /\ IF ~AmountsFound(p.ingredients)
                  THEN \* Recipe.objects.create has stored the row; Http404
                       /\ recipes' = (nextId :> created) @@ recipes
                       /\ last' = Respond(req(nextId), 404, "detail", {})
                  ELSE /\ recipes' = (nextId :> recipe) @@ recipes
                       \* to_representation reads instance.recipeingredientamount
                       /\ last' = IF HasAttr("recipeingredientamount")
                                  THEN Respond(req(nextId), 201, "",
                                               to_representation(recipe))
                                  ELSE Respond(req(nextId), 500, "detail", {})

(***************************************************************************)
(* RecipeWriteSerializer.update on a stored recipe, after the permission   *)
(* checks: the recipe as stored afterwards and the status.  super().update *)
(* saves the fields and the author; the next statement reads               *)
(* instance.recipeingredientamount, which raises AttributeError when the   *)
(* instance has no such attribute, and the request is not served in a      *)
(* transaction, so what was saved stays.                                   *)
(***************************************************************************)
SerializerUpdate(instance, u, p) ==
    LET saved == [instance EXCEPT !.name = p.name, !.author = u]
    IN IF ~HasAttr("recipeingredientamount")
       THEN [recipe |-> saved, status |-> 500]
       ELSE IF ~AmountsFound(p.ingredients)
       THEN [recipe |-> [saved EXCEPT !.amounts = <<>>], status |-> 404]
       ELSE [recipe |-> [saved EXCEPT !.amounts = get_amounts(p.ingredients),
                                      !.tags = Range(p.tags)],
             status |-> 200]

(***************************************************************************)
(* PUT (action update) and PATCH (action partial_update) /recipes/{pk}/.   *)
(***************************************************************************)
UpdateRecipe(action, u, pk, p) ==
    LET method == IF action = "update" THEN "PUT" ELSE "PATCH"
        req == Request("recipe", method, u, pk, p)
    IN
    /\ action \in {"update", "partial_update"}
    /\ UNCHANGED <<passwords, nextId, Favorite, ShoppingCart, Subscription, inflight>>
    /\ IF ~HasPermission(action, u)
       THEN /\ last' = Respond(req, PermissionDenied(u), "detail", {})
            /\ UNCHANGED recipes
       ELSE IF ~Exists(pk)
       THEN /\ last' = Respond(req, 404, "detail", {})
            /\ UNCHANGED recipes
       ELSE IF ~HasObjectPermission(action, u, recipes[pk])
       THEN /\ last' = Respond(req, PermissionDenied(u), "detail", {})
            /\ UNCHANGED recipes
       ELSE IF ~is_valid(p)
       THEN /\ last' = Respond(req, 400, "field", {})
            /\ UNCHANGED recipes
       ELSE LET done == SerializerUpdate(recipes[pk], u, p)
            IN /\ recipes' = [recipes EXCEPT ![pk] = done.recipe]
               /\ last' = IF done.status = 200
                          THEN Respond(req, 200, "", to_representation(done.recipe))
                          ELSE Respond(req, done.status, "detail", {})

(***************************************************************************)
(* GET /recipes/{pk}/ (action retrieve): the read form of the recipe.      *)
(***************************************************************************)
RetrieveRecipe(u, pk) ==
    LET req == Request("recipe", "GET", u, pk, <<>>)
    IN
    /\ UNCHANGED <<store, inflight>>
    /\ IF ~HasPermission("retrieve", u)
       THEN last' = Respond(req, PermissionDenied(u), "detail", {})
       ELSE IF ~Exists(pk)
       THEN last' = Respond(req, 404, "detail", {})
       ELSE IF ~HasAttr("recipeingredientamount")
       THEN last' = Respond(req, 500, "detail", {})
       ELSE last' = Respond(req, 200, "", RecipeSerializer(recipes[pk]))

(***************************************************************************)
(* DELETE /recipes/{pk}/ : the row and, by on_delete=CASCADE, the rows     *)
(* that reference it.                                                      *)
(***************************************************************************)
DestroyRecipe(u, pk) ==
    /\ UNCHANGED <<passwords, nextId, Subscription, inflight>>
    /\ IF ~HasPermission("destroy", u)
       THEN /\ last' = Response("recipe", "DELETE", u, pk, PermissionDenied(u), "detail", {})
            /\ UNCHANGED <<recipes, Favorite, ShoppingCart>>
       ELSE IF ~Exists(pk)
       THEN /\ last' = Response("recipe", "DELETE", u, pk, 404, "detail", {})
            /\ UNCHANGED <<recipes, Favorite, ShoppingCart>>
       ELSE IF ~HasObjectPermission("destroy", u, recipes[pk])
       THEN /\ last' = Response("recipe", "DELETE", u, pk, PermissionDenied(u), "detail", {})
            /\ UNCHANGED <<recipes, Favorite, ShoppingCart>>
       ELSE /\ recipes' = Without(recipes, pk)
            /\ Favorite' = WithoutTarget(Favorite, pk)
            /\ ShoppingCart' = WithoutTarget(ShoppingCart, pk)
            /\ last' = Response("recipe", "DELETE", u, pk, 204, "", {})

(***************************************************************************)
(* The delete of a User row (the User model is registered with the admin   *)
(* site) by a staff member.  Every ForeignKey to User is on_delete=CASCADE:*)
(* the user's recipes go, with the rows that reference them, and the       *)
(* Favorite, ShoppingCart and Subscription rows of the user, and the       *)
(* Subscription rows to the user as an author.                             *)
(***************************************************************************)
\* rows of a (user, target) table that are not rows of user pk
WithoutUser(table, pk) ==
    [row \in {x \in DOMAIN table : x[1] # pk} |-> table[row]]

\* the Favorite / ShoppingCart table without the rows of any recipe of pks
RECURSIVE WithoutTargets(_, _)
WithoutTargets(table, pks) ==
    IF pks = {} THEN table
    ELSE LET pk == CHOOSE x \in pks : TRUE
         IN WithoutTargets(WithoutTarget(table, pk), pks \ {pk})

DeleteUser(admin, pk) ==
    LET authored == { r \in DOMAIN recipes : recipes[r].author = pk }
    IN
    /\ admin \in Staff
    /\ UserExists(admin)
    /\ UserExists(pk)
    /\ UNCHANGED <<nextId, inflight>>
    /\ passwords' = Without(passwords, pk)
    /\ recipes' = [r \in DOMAIN recipes \ authored |-> recipes[r]]
    /\ Favorite' = WithoutUser(WithoutTargets(Favorite, authored), pk)
    /\ ShoppingCart' = WithoutUser(WithoutTargets(ShoppingCart, authored), pk)
    /\ Subscription' = WithoutUser(WithoutTarget(Subscription, pk), pk)
    /\ last' = Response("user", "DELETE", admin, pk, 204, "", {})

(***************************************************************************)
(* Tables of (user, target) rows.  The store enforces the declared         *)
(* UniqueConstraint: create raises IntegrityError when the row exists.     *)
(***************************************************************************)
Count(table, row) == IF row \in DOMAIN table THEN table[row] ELSE 0

Insert(table, row) == table (+) SetToBag({row})

\* a delete of every row of the row's user
DeleteOfUser(table, row) == [x \in {y \in DOMAIN table : y[1] # row[1]} |-> table[x]]

\* Model.delete() of one row
DeleteOne(table, row) == table (-) SetToBag({row})

\* a delete of every row naming the row's target
DeleteOfTarget(table, row) == [x \in {y \in DOMAIN table : y[2] # row[2]} |-> table[x]]

\* QuerySet.delete() of every row equal to row
DeleteAll(table, row) == [x \in DOMAIN table \ {row} |-> table[x]]

\* get_or_create without the lookup: the row is created whether or not it exists
create_always(table, row) == [table |-> Insert(table, row), created |-> TRUE]

\* a store without the UniqueConstraint
NoConstraint(table, row) == FALSE

\* the UniqueConstraint on (user, recipe), on (user, author): a second row
\* with the same pair is refused
UniqueViolation(table, row) == Count(table, row) > 0

\* objects.create: the INSERT, or IntegrityError
create(table, row) ==
    IF UniqueViolation(table, row)
    THEN [table |-> table, ok |-> FALSE]
    ELSE [table |-> Insert(table, row), ok |-> TRUE]

\* QuerySet.get_or_create served in one piece: the row is looked up, and
\* created when absent
get_or_create(table, row) ==
    IF Count(table, row) > 0
    THEN [table |-> table, created |-> FALSE]
    ELSE [table |-> create(table, row).table, created |-> create(table, row).ok]

\* the handler with get_object_or_404 for the recipe: a missing recipe is
\* answered 404
favorite_shopping_cart_404(table, u, pk, method) ==
    IF ~Exists(pk)
    THEN [table |-> table, status |-> 404, key |-> "detail"]
    ELSE IF method = "POST"
    THEN LET got == get_or_create(table, <<u, pk>>)
         IN IF got.created
            THEN [table |-> got.table, status |-> 201, key |-> ""]
            ELSE [table |-> got.table, status |-> 400, key |-> "errors"]
    ELSE IF Count(table, <<u, pk>>) = 0
         THEN [table |-> table, status |-> 400, key |-> "errors"]
         ELSE IF Count(table, <<u, pk>>) > 1
         THEN [table |-> table, status |-> 500, key |-> "detail"]
         ELSE [table |-> DeleteOne(table, <<u, pk>>), status |-> 204, key |-> ""]

(***************************************************************************)
(* RecipeViewSet.favorite_shopping_cart on the table of model: the new     *)
(* table, the status and the key of the body.                              *)
(***************************************************************************)
favorite_shopping_cart(table, u, pk, method) ==
    IF ~Exists(pk)
    THEN [table |-> table, status |-> 400, key |-> "errors"]
    ELSE IF method = "POST"
    THEN LET got == get_or_create(table, <<u, pk>>)
         IN IF got.created
            THEN [table |-> got.table, status |-> 201, key |-> ""]
            ELSE [table |-> got.table, status |-> 400, key |-> "errors"]
    ELSE \* related.get(recipe_id=pk), then item.delete()
         IF Count(table, <<u, pk>>) = 0
         THEN [table |-> table, status |-> 400, key |-> "errors"]
         ELSE IF Count(table, <<u, pk>>) > 1
         THEN [table |-> table, status |-> 500, key |-> "detail"]
         ELSE [table |-> DeleteOne(table, <<u, pk>>), status |-> 204, key |-> ""]

\* POST, DELETE /recipes/{pk}/favorite/
favorite(u, pk, method) ==
    /\ UNCHANGED <<passwords, recipes, nextId, ShoppingCart, Subscription, inflight>>
    /\ IF ~IsAuthenticated(u)
       THEN /\ last' = Response("favorite", method, u, pk, PermissionDenied(u), "detail", {})
            /\ UNCHANGED Favorite
       ELSE LET done == favorite_shopping_cart(Favorite, u, pk, method)
            IN /\ Favorite' = done.table
               /\ last' = Response("favorite", method, u, pk, done.status, done.key, {})

\* POST, DELETE /recipes/{pk}/shopping_cart/
shopping_cart(u, pk, method) ==
    /\ UNCHANGED <<passwords, recipes, nextId, Favorite, Subscription, inflight>>
    /\ IF ~IsAuthenticated(u)
       THEN /\ last' = Response("shopping_cart", method, u, pk, PermissionDenied(u), "detail", {})
            /\ UNCHANGED ShoppingCart
       ELSE LET done == favorite_shopping_cart(ShoppingCart, u, pk, method)
            IN /\ ShoppingCart' = done.table
               /\ last' = Response("shopping_cart", method, u, pk, done.status, done.key, {})

(***************************************************************************)
(* download_shopping_cart: the RecipeIngredientAmount rows whose recipe is *)
(* among the pks of the user's ShoppingCart rows, grouped by the           *)
(* ingredient's name and measurement unit, with Sum('amount').             *)
(***************************************************************************)
\* the RecipeIngredientAmount table: one row per position of a recipe's list
AmountRows ==
    UNION { { <<r, i>> : i \in DOMAIN recipes[r].amounts } : r \in DOMAIN recipes }

RowOf(x) == recipes[x[1]].amounts[x[2]]

RECURSIVE SumAmount(_)
SumAmount(rows) ==
    IF rows = {} THEN 0
    ELSE LET x == CHOOSE y \in rows : TRUE
         IN RowOf(x).amount + SumAmount(rows \ {x})

GroupKey(x) ==
    <<Ingredients[RowOf(x).ingredient].name,
      Ingredients[RowOf(x).ingredient].measurement_unit>>

\* the recipe pks of every user's ShoppingCart rows
AnyCartPks(u) == { row[2] : row \in DOMAIN ShoppingCart }

ShoppingCartPks(u) == { row[2] : row \in { x \in DOMAIN ShoppingCart : x[1] = u } }

ShoppingCartQuery(u) ==
    LET rows == { x \in AmountRows : x[1] \in ShoppingCartPks(u) }
    IN { <<k[1], k[2], SumAmount({ x \in rows : GroupKey(x) = k })>> :
            k \in { GroupKey(x) : x \in rows } }

download_shopping_cart(u) ==
    /\ UNCHANGED <<store, inflight>>
    /\ IF ~IsAuthenticated(u)
       THEN last' = Response("download_shopping_cart", "GET", u, 0,
                             PermissionDenied(u), "detail", {})
       ELSE last' = Response("download_shopping_cart", "GET", u, 0,
                             200, "", ShoppingCartQuery(u))

(***************************************************************************)
(* get_pdf: the canvas and the drawString calls, one step per statement.   *)
(* The canvas is the list of the lines drawn, each with the page it is on, *)
(* its coordinates, its font size and its text, the number of the page     *)
(* being drawn, and the pages closed by showPage.  While the document is   *)
(* drawn the response has status 0; `done' counts the rows drawn and y is  *)
(* the local variable y.                                                   *)
(***************************************************************************)
LeftMargin == 80
TopOfList == 730
TitleOffset == 30
LineOffset == 12
LineSpacing == 25
TitleSize == 28
LineSize == 16

\* a shopping list of n aggregated rows: (name, measurement unit, amount)
ShoppingList(n) == [i \in 1..n |-> <<i, "g", i>>]

\* the f-string of a row: bullet, name, measurement unit, amount
LineText(ingredient) == <<"bullet", ingredient[1], ingredient[2], ingredient[3]>>

drawString(canvas, x, y, size, text) ==
    [canvas EXCEPT !.lines =
        Append(@, [page |-> canvas.page, x |-> x, y |-> y,
                   size |-> size, text |-> text])]

\* showPage closes the page being drawn
showPage(canvas) == [canvas EXCEPT !.pages = @ + 1, !.page = @ + 1]

\* canvas.Canvas(buffer), x = 80, y = 730 and the title
get_pdf_begin(u, n) ==
    LET canvas == [lines |-> <<>>, page |-> 1, pages |-> 0]
    IN
    /\ last.status # 0 \/ last.op = "none"
    /\ UNCHANGED <<store, inflight>>
    /\ last' = Respond(Request("get_pdf", "GET", u, 0, ShoppingList(n)), 0, "",
                       [canvas |-> drawString(canvas, LeftMargin,
                                              TopOfList + TitleOffset,
                                              TitleSize, "title"),
                        y |-> TopOfList, done |-> 0])

\* one turn of the loop over shopping_cart
get_pdf_row ==
    /\ last.op = "get_pdf"
    /\ last.status = 0
    /\ last.data.done < Len(last.args)
    /\ UNCHANGED <<store, inflight>>
    /\ LET ingredient == last.args[last.data.done + 1]
           y == last.data.y
       IN last' = [last EXCEPT !.data =
                     [canvas |-> drawString(last.data.canvas, LeftMargin,
                                            y - LineOffset, LineSize,
                                            LineText(ingredient)),
                      y |-> y - LineSpacing,
                      done |-> last.data.done + 1]]

\* showPage, save and the FileResponse
get_pdf_save ==
    /\ last.op = "get_pdf"
    /\ last.status = 0
    /\ last.data.done = Len(last.args)
    /\ UNCHANGED <<store, inflight>>
    /\ last' = [last EXCEPT !.status = 200,
                            !.data = [last.data EXCEPT
                                        !.canvas = showPage(last.data.canvas)]]

(***************************************************************************)
(* GET /recipes/ : get_queryset with the query flags, then RecipeFilter    *)
(* (author, tags).  A flag or filter that is not given is "".              *)
(***************************************************************************)
Query(is_favorited, is_in_shopping_cart, author, tags) ==
    [is_favorited |-> is_favorited, is_in_shopping_cart |-> is_in_shopping_cart,
     author |-> author, tags |-> tags]

FavoritePks(u) == { row[2] : row \in { x \in DOMAIN Favorite : x[1] = u } }

get_queryset(u, q) ==
    IF q.is_favorited = "1" /\ IsAuthenticated(u)
    THEN { pk \in DOMAIN recipes : pk \in FavoritePks(u) }
    ELSE IF q.is_in_shopping_cart = "1" /\ IsAuthenticated(u)
    THEN { pk \in DOMAIN recipes : pk \in ShoppingCartPks(u) }
    ELSE DOMAIN recipes

\* author: the recipes of that user; tags: the recipes with any of the tags
RecipeFilter(queryset, q) ==
    { pk \in queryset :
        /\ q.author = 0 \/ recipes[pk].author = q.author
        /\ q.tags = {} \/ recipes[pk].tags \cap q.tags # {} }

ListRecipes(u, q) ==
    /\ UNCHANGED <<store, inflight>>
    /\ LET queryset == RecipeFilter(get_queryset(u, q), q)
       IN \* RecipeSerializer reads recipeingredientamount of every recipe
          last' = Respond(Request("recipes", "GET", u, 0, q),
                          IF queryset = {} \/ HasAttr("recipeingredientamount")
                          THEN 200 ELSE 500,
                          "", queryset)

(***************************************************************************)
(* POST, DELETE /users/{pk}/subscribe/                                     *)
(***************************************************************************)
\* Subscription.Meta.constraints: the CheckConstraint no_self_subscribing
no_self_subscribing(row) == row[1] # row[2]

\* the tests left out
NeverSelf(u, author) == FALSE

NeverExists(u, author) == FALSE

\* the view's own tests before it creates the row
SelfSubscription(u, author) == u = author

SubscriptionExists(u, author) == Count(Subscription, <<u, author>>) > 0

subscribe(u, pk, method) ==
    /\ UNCHANGED <<passwords, recipes, nextId, Favorite, ShoppingCart, inflight>>
    /\ IF ~IsAuthenticated(u)
       THEN /\ last' = Response("subscribe", method, u, pk, PermissionDenied(u), "detail", {})
            /\ UNCHANGED Subscription
       ELSE IF ~UserExists(pk)
       THEN /\ last' = Response("subscribe", method, u, pk, 404, "detail", {})
            /\ UNCHANGED Subscription
       ELSE IF method = "POST"
       THEN IF SelfSubscription(u, pk)
            THEN /\ last' = Response("subscribe", method, u, pk, 400, "author", {})
                 /\ UNCHANGED Subscription
            ELSE IF SubscriptionExists(u, pk)
            THEN /\ last' = Response("subscribe", method, u, pk, 400, "author", {})
                 /\ UNCHANGED Subscription
            ELSE LET got == get_or_create(Subscription, <<u, pk>>)
                 IN IF got.created /\ ~no_self_subscribing(<<u, pk>>)
                    THEN \* IntegrityError
                         /\ last' = Response("subscribe", method, u, pk, 500, "detail", {})
                         /\ UNCHANGED Subscription
                    ELSE /\ Subscription' = got.table
                         /\ last' = Response("subscribe", method, u, pk, 201, "", {})
       ELSE \* user.subscriptions.filter(author_id=pk).delete()
            IF Count(Subscription, <<u, pk>>) = 0
            THEN /\ last' = Response("subscribe", method, u, pk, 400, "errors", {})
                 /\ UNCHANGED Subscription
            ELSE /\ Subscription' = DeleteAll(Subscription, <<u, pk>>)
                 /\ last' = Response("subscribe", method, u, pk, 204, "", {})

(***************************************************************************)
(* POST /users/set_password/ : a staff requester changes the password of   *)
(* the first user the given current password checks against; the order of  *)
(* User.objects.all() is the store's, any such user may come first.        *)
(***************************************************************************)
Passwords(current_password, new_password) ==
    [current_password |-> current_password, new_password |-> new_password]

set_password(u, data) ==
    LET req == Request("set_password", "POST", u, 0, data)
        matching == { user \in DOMAIN passwords :
                        check_password(user, data.current_password) }
    IN
    /\ UNCHANGED <<recipes, nextId, Favorite, ShoppingCart, Subscription, inflight>>
    /\ IF ~IsAuthenticated(u)
       THEN /\ last' = Respond(req, PermissionDenied(u), "detail", {})
            /\ UNCHANGED passwords
       ELSE IF u \in Staff /\ matching # {}
       THEN \E user \in matching :
              /\ passwords' = [passwords EXCEPT
                                 ![user] = make_password(data.new_password)]
              /\ last' = Respond(req, 204, "", {})
       ELSE IF check_password(u, data.current_password)
       THEN /\ passwords' = [passwords EXCEPT
                                 ![u] = make_password(data.new_password)]
            /\ last' = Respond(req, 204, "", {})
       ELSE /\ last' = Respond(req, 400, "current_password", {})
            /\ UNCHANGED passwords

(***************************************************************************)
(* The favorite, shopping_cart and subscribe handlers served by several    *)
(* workers at once: every query of a handler is a step of its own, and the *)
(* steps of different workers interleave.  A worker's record is its        *)
(* request, the query it is about to run (pc) and, when done, the status.  *)
(***************************************************************************)
Work(op, method, u, pk, pc, status) ==
    [op |-> op, method |-> method, user |-> u, pk |-> pk,
     pc |-> pc, status |-> status]

At(w, pc) == Work(inflight[w].op, inflight[w].method, inflight[w].user,
                  inflight[w].pk, pc, 0)

Done(w, status) == Work(inflight[w].op, inflight[w].method, inflight[w].user,
                        inflight[w].pk, "done", status)

TableOf(op) ==
    IF op = "favorite" THEN Favorite
    ELSE IF op = "shopping_cart" THEN ShoppingCart
    ELSE Subscription

SetTable(op, table) ==
    /\ Favorite' = IF op = "favorite" THEN table ELSE Favorite
    /\ ShoppingCart' = IF op = "shopping_cart" THEN table ELSE ShoppingCart
    /\ Subscription' = IF op = "subscribe" THEN table ELSE Subscription

\* the request arrives: the permission check and the lookup of the recipe
\* (Recipe.objects.get) or of the author (get_object_or_404), then for a
\* POST subscribe the test for a subscription to oneself
Begin(w, op, method, u, pk) ==
    /\ inflight[w].pc \in {"idle", "done"}
    /\ UNCHANGED <<store, last>>
    /\ LET start == Work(op, method, u, pk, "get", 0)
           answer(status) == Work(op, method, u, pk, "done", status)
       IN inflight' = [inflight EXCEPT ![w] =
            IF ~IsAuthenticated(u) THEN answer(PermissionDenied(u))
            ELSE IF op = "subscribe"
            THEN IF ~UserExists(pk) THEN answer(404)
                 ELSE IF method = "DELETE" THEN [start EXCEPT !.pc = "delete"]
                 ELSE IF SelfSubscription(u, pk) THEN answer(400)
                 ELSE [start EXCEPT !.pc = "exists"]
            ELSE IF ~Exists(pk) THEN answer(400)
                 ELSE start]

\* a lookup of the row: Subscription...exists(), the get of get_or_create,
\* its second get after IntegrityError, and related.get of a DELETE
Lookup(w) ==
    LET req == inflight[w]
        found == Count(TableOf(req.op), <<req.user, req.pk>>) > 0
    IN
    /\ req.pc \in {"exists", "get", "retry"}
    /\ UNCHANGED <<store, last>>
    /\ inflight' = [inflight EXCEPT ![w] =
         IF req.pc = "exists"
         THEN IF found THEN Done(w, 400) ELSE At(w, "get")
         ELSE IF req.method = "DELETE"
         THEN IF ~found THEN Done(w, 400)
              ELSE IF Count(TableOf(req.op), <<req.user, req.pk>>) > 1
              THEN Done(w, 500)
              ELSE At(w, "delete")
         ELSE IF req.pc = "get"
         THEN IF found
              THEN Done(w, IF req.op = "subscribe" THEN 201 ELSE 400)
              ELSE At(w, "create")
         ELSE \* retry
              IF found
              THEN Done(w, IF req.op = "subscribe" THEN 201 ELSE 400)
              ELSE Done(w, 500)]

\* the create of get_or_create
Create(w) ==
    LET req == inflight[w]
        made == create(TableOf(req.op), <<req.user, req.pk>>)
    IN
    /\ req.pc = "create"
    /\ UNCHANGED <<passwords, recipes, nextId, last>>
    /\ SetTable(req.op, made.table)
    /\ inflight' = [inflight EXCEPT ![w] =
         IF made.ok THEN Done(w, 201) ELSE At(w, "retry")]

\* item.delete() of the row a DELETE favorite / shopping_cart has fetched
\* (a row another worker has deleted since is gone, pc = "stale"), and the
\* filter(...).delete() of a DELETE subscribe
Delete(w) ==
    LET req == inflight[w]
        row == <<req.user, req.pk>>
        table == TableOf(req.op)
        \* the other workers holding the row this step deletes
        holds(v) == /\ v # w
                    /\ inflight[v].pc = "delete"
                    /\ inflight[v].op = req.op
                    /\ inflight[v].op # "subscribe"
                    /\ <<inflight[v].user, inflight[v].pk>> = row
    IN
    /\ req.pc \in {"delete", "stale"}
    /\ UNCHANGED <<passwords, recipes, nextId, last>>
    /\ IF req.pc = "stale"
       THEN /\ SetTable(req.op, table)
            /\ inflight' = [inflight EXCEPT ![w] = Done(w, 204)]
       ELSE IF req.op = "subscribe"
       THEN /\ SetTable(req.op, DeleteAll(table, row))
            /\ inflight' = [v \in Workers |->
                 IF v = w
                 THEN Done(w, IF Count(table, row) = 0 THEN 400 ELSE 204)
                 ELSE inflight[v]]
       ELSE /\ SetTable(req.op, DeleteOne(table, row))
            /\ inflight' = [v \in Workers |->
                 IF v = w THEN Done(w, 204)
                 ELSE IF holds(v)
                      THEN [inflight[v] EXCEPT !.pc = "stale"]
                      ELSE inflight[v]]

(***************************************************************************)
(* Specifications: the handlers of one resource each, over their inputs.   *)
(***************************************************************************)
Methods == {"POST", "DELETE"}

\* the users who send requests in the specifications below
Actors == {1, 2}
Callers == Actors \cup {Anonymous}

\* every recipe request of every caller
RecipeNext ==
    \/ \E u \in Callers, p \in RecipePayloads : CreateRecipe(u, p)
    \/ \E a \in {"update", "partial_update"}, u \in Callers,
          pk \in RecipeIds \cup {MissingPk}, p \in RecipePayloads :
            UpdateRecipe(a, u, pk, p)
    \/ \E u \in Callers, pk \in RecipeIds \cup {MissingPk} : DestroyRecipe(u, pk)

SpecRecipe == Init /\ [][RecipeNext]_vars

Soup == Payload("soup", <<1>>, <<Item(1, 2)>>)
Cake == Payload("cake", <<2, 1>>, <<Item(1, 1), Item(2, 2)>>)
Stew == Payload("stew", <<2>>, <<Item(2, 1), Item(3, 1), Item(2, 1)>>)

\* recipes of one author, and the Favorite and ShoppingCart requests of
\* every caller on every recipe pk, stored or not
MembershipNext ==
    \/ CreateRecipe(1, Soup)
    \/ \E u \in Callers, pk \in RecipeIds, m \in Methods : favorite(u, pk, m)
    \/ \E u \in Callers, pk \in RecipeIds, m \in Methods : shopping_cart(u, pk, m)

SpecMembership == Init /\ [][MembershipNext]_vars

\* recipe writes of one author, the ShoppingCart requests of two users and
\* the shopping list
CartNext ==
    \/ \E p \in {Soup, Cake, Stew} : CreateRecipe(1, p)
    \/ \E pk \in RecipeIds : UpdateRecipe("update", 1, pk, Cake)
    \/ \E pk \in RecipeIds : DestroyRecipe(1, pk)
    \/ \E u \in Actors, pk \in RecipeIds, m \in Methods : shopping_cart(u, pk, m)
    \/ \E u \in Callers : download_shopping_cart(u)

SpecCart == Init /\ [][CartNext]_vars

Queries ==
    { Query(f, c, 0, {}) : f \in {"", "1"}, c \in {"", "1"} }
    \cup { Query("", "", 2, {}), Query("1", "", 0, {2}) }

\* recipes, both tables and the recipe list
FilterNext ==
    \/ \E u \in Actors, p \in {Soup, Cake} : CreateRecipe(u, p)
    \/ \E pk \in RecipeIds : favorite(1, pk, "POST")
    \/ \E pk \in RecipeIds : shopping_cart(1, pk, "POST")
    \/ \E u \in {1, Anonymous}, q \in Queries : ListRecipes(u, q)

SpecFilter == Init /\ [][FilterNext]_vars

SubscribeNext ==
    \E u \in Users \cup {Anonymous}, pk \in Users \cup {MissingUser}, m \in Methods :
        subscribe(u, pk, m)

SpecSubscribe == Init /\ [][SubscribeNext]_vars

PasswordNext ==
    \E u \in Users \cup {Anonymous}, c \in RawPasswords, n \in RawPasswords :
        set_password(u, Passwords(c, n))

SpecPassword == Init /\ [][PasswordNext]_vars


\* the three handlers by two workers at once, on one recipe and between
\* two users
ConcNext ==
    \/ nextId = 1 /\ CreateRecipe(1, Soup)
    \/ \E w \in Workers, op \in {"favorite", "shopping_cart"},
          m \in Methods, u \in Actors :
            Begin(w, op, m, u, 1)
    \/ \E w \in Workers, m \in Methods, u \in Actors, pk \in Actors :
            Begin(w, "subscribe", m, u, pk)
    \/ \E w \in Workers : Lookup(w)
    \/ \E w \in Workers : Create(w)
    \/ \E w \in Workers : Delete(w)

SpecConc == Init /\ [][ConcNext]_vars

\* a payload the serializer accepts that names an ingredient not stored
Pie == Payload("pie", <<2>>, <<Item(3, 1), Item(MissingIngredient, 1)>>)

\* recipe writes of two users with payloads whose ingredients exist or do
\* not, and the read form of a recipe
WriteNext ==
    \/ \E u \in Actors, p \in {Soup, Cake, Pie} : CreateRecipe(u, p)
    \/ \E a \in {"update", "partial_update"}, u \in Actors, pk \in RecipeIds,
          p \in {Soup, Cake, Pie} :
            UpdateRecipe(a, u, pk, p)
    \/ \E u \in {1, Anonymous}, pk \in RecipeIds : RetrieveRecipe(u, pk)

SpecWrite == Init /\ [][WriteNext]_vars

\* the life of recipes, rows and users: recipe writes and deletes by the
\* stored users among two, rows of all three tables, and the deletion of
\* users; a deleted user sends no more requests
LifecycleNext ==
    \/ \E u \in Actors : UserExists(u) /\ CreateRecipe(u, Soup)
    \/ \E pk \in RecipeIds : UserExists(2) /\ UpdateRecipe("update", 2, pk, Cake)
    \/ \E u \in Actors, pk \in RecipeIds : UserExists(u) /\ DestroyRecipe(u, pk)
    \/ \E pk \in RecipeIds : UserExists(1) /\ favorite(1, pk, "POST")
    \/ \E pk \in RecipeIds : UserExists(2) /\ shopping_cart(2, pk, "POST")
    \/ \E u \in Actors, a \in Actors : UserExists(u) /\ subscribe(u, a, "POST")
    \/ \E pk \in Actors : DeleteUser(1, pk)

SpecLifecycle == Init /\ [][LifecycleNext]_vars

\* the document of shopping lists of every length up to MaxRows
PdfNext ==
    \/ \E n \in 0..MaxRows : get_pdf_begin(1, n)
    \/ get_pdf_row
    \/ get_pdf_save

SpecPdf == Init /\ [][PdfNext]_vars

\* POST subscribe requests between two users by two workers at once, from
\* an empty Subscription table; no request deletes a row
RaceNext ==
    \/ \E w \in Workers, u \in Actors, pk \in Actors :
            Begin(w, "subscribe", "POST", u, pk)
    \/ \E w \in Workers : Lookup(w)
    \/ \E w \in Workers : Create(w)

SpecRace == Init /\ [][RaceNext]_vars

(***************************************************************************)
(* Properties.                                                             *)
(***************************************************************************)
\* every row but row occurs as often in t2 as in t1
SameExcept(t1, t2, row) ==
    \A x \in (DOMAIN t1 \cup DOMAIN t2) \ {row} : Count(t1, x) = Count(t2, x)

\* C1: a recipe is mutated only by its author: an update (PUT or PATCH) or
\* delete of a recipe by a requester who is not its author leaves the
\* recipe's fields, author, tag set and amount records as they were.  (The
\* claim also asks for a 401 or 403 response; what is stated here is the
\* part a response other than a refusal could still keep.)
C1_OnlyAuthorMutates ==
    [][ ( /\ last'.op = "recipe"
          /\ last'.method \in {"PUT", "PATCH", "DELETE"}
          /\ Exists(last'.pk)
          /\ recipes[last'.pk].author # last'.user )
        => recipes' = recipes ]_vars

\* C1, the part the code keeps: PATCH and DELETE by a non-author are refused
\* and change nothing.
C1_PatchDeleteRefused ==
    [][ ( /\ last'.op = "recipe"
          /\ last'.method \in {"PATCH", "DELETE"}
          /\ Exists(last'.pk)
          /\ recipes[last'.pk].author # last'.user )
        => ( last'.status \in {401, 403} /\ store' = store ) ]_vars

\* C2: a favorite / shopping_cart POST by user u on a stored recipe r adds
\* exactly the row (u, r) with 201 when the table has no such row, and
\* answers 400 "errors" with the table unchanged when it has one.
C2_PostAddsOrConflicts ==
    [][ \A op \in {"favorite", "shopping_cart"} :
        ( /\ last'.op = op
          /\ last'.method = "POST"
          /\ IsAuthenticated(last'.user)
          /\ Exists(last'.pk) )
        => LET row == <<last'.user, last'.pk>>
               before == IF op = "favorite" THEN Favorite ELSE ShoppingCart
               after == IF op = "favorite" THEN Favorite' ELSE ShoppingCart'
           IN IF Count(before, row) = 0
              THEN /\ Count(after, row) = 1
                   /\ SameExcept(before, after, row)
                   /\ last'.status = 201
              ELSE /\ after = before
                   /\ last'.status = 400
                   /\ last'.key = "errors" ]_vars

\* the second POST of the same (u, r): the error, and one stored row
C2_SecondPostConflicts ==
    /\ last.op = "favorite"
    /\ last.method = "POST"
    /\ last.status = 400
    /\ last.key = "errors"
    /\ Exists(last.pk)
    /\ Count(Favorite, <<last.user, last.pk>>) = 1

\* C3: a favorite / shopping_cart DELETE by user u on a stored recipe r
\* removes the row (u, r) and no other with 204 when the table has it, and
\* answers 400 "errors" with the table unchanged when it has not.
C3_DeleteRemovesOrReports ==
    [][ \A op \in {"favorite", "shopping_cart"} :
        ( /\ last'.op = op
          /\ last'.method = "DELETE"
          /\ IsAuthenticated(last'.user)
          /\ Exists(last'.pk) )
        => LET row == <<last'.user, last'.pk>>
               before == IF op = "favorite" THEN Favorite ELSE ShoppingCart
               after == IF op = "favorite" THEN Favorite' ELSE ShoppingCart'
           IN IF Count(before, row) > 0
              THEN /\ Count(after, row) = 0
                   /\ SameExcept(before, after, row)
                   /\ last'.status = 204
              ELSE /\ after = before
                   /\ last'.status = 400
                   /\ last'.key = "errors" ]_vars

\* a DELETE that removed the row of (u, r) and left u's row of another recipe
C3_DeletedOneOfTwo ==
    /\ last.op = "shopping_cart"
    /\ last.method = "DELETE"
    /\ last.status = 204
    /\ Count(ShoppingCart, <<last.user, last.pk>>) = 0
    /\ \E pk \in DOMAIN recipes : Count(ShoppingCart, <<last.user, pk>>) = 1

\* C4: no Subscription row ever has user = author, and a POST subscribe of
\* a user to themselves is answered 400 with the table unchanged.
C4_NoSelfSubscription ==
    /\ [](\A row \in DOMAIN Subscription : row[1] # row[2])
    /\ [][ ( /\ last'.op = "subscribe"
             /\ last'.method = "POST"
             /\ IsAuthenticated(last'.user)
             /\ last'.pk = last'.user )
           => ( /\ last'.status = 400
                /\ last'.key = "author"
                /\ Subscription' = Subscription ) ]_vars

\* a self-subscription refused while the user holds other subscriptions
C4_SelfRefused ==
    /\ last.op = "subscribe"
    /\ last.method = "POST"
    /\ last.pk = last.user
    /\ last.status = 400
    /\ \E a \in Users : Count(Subscription, <<last.user, a>>) = 1

\* C5: a POST subscribe of u to another stored user a creates exactly the
\* row (u, a) with 201 when there is none, and is answered 400 with the
\* table unchanged when there is one.
C5_SubscribeCreatesOrRejects ==
    [][ ( /\ last'.op = "subscribe"
          /\ last'.method = "POST"
          /\ IsAuthenticated(last'.user)
          /\ last'.pk \in Users
          /\ last'.pk # last'.user )
        => LET row == <<last'.user, last'.pk>>
           IN IF Count(Subscription, row) = 0
              THEN /\ Count(Subscription', row) = 1
                   /\ SameExcept(Subscription, Subscription', row)
                   /\ last'.status = 201
              ELSE /\ Subscription' = Subscription
                   /\ last'.status = 400
                   /\ last'.key = "author" ]_vars

\* a duplicate subscription rejected, the row still stored once
C5_DuplicateRejected ==
    /\ last.op = "subscribe"
    /\ last.method = "POST"
    /\ last.pk # last.user
    /\ last.status = 400
    /\ last.key = "author"
    /\ Count(Subscription, <<last.user, last.pk>>) = 1

\* C6: a DELETE subscribe of u on a stored user a removes the row (u, a)
\* and no other row with 204 when it exists, and is answered 400 "errors"
\* with the table unchanged when it does not.
C6_UnsubscribeRemovesOnlyOwn ==
    [][ ( /\ last'.op = "subscribe"
          /\ last'.method = "DELETE"
          /\ IsAuthenticated(last'.user)
          /\ last'.pk \in Users )
        => LET row == <<last'.user, last'.pk>>
           IN IF Count(Subscription, row) > 0
              THEN /\ Count(Subscription', row) = 0
                   /\ SameExcept(Subscription, Subscription', row)
                   /\ last'.status = 204
              ELSE /\ Subscription' = Subscription
                   /\ last'.status = 400
                   /\ last'.key = "errors" ]_vars

\* (u, a) removed while another user's subscription to a and u's
\* subscription to another author stay
C6_OthersKept ==
    /\ last.op = "subscribe"
    /\ last.method = "DELETE"
    /\ last.status = 204
    /\ Count(Subscription, <<last.user, last.pk>>) = 0
    /\ \E w \in Users \ {last.user} : Count(Subscription, <<w, last.pk>>) = 1
    /\ \E b \in Users \ {last.pk} : Count(Subscription, <<last.user, b>>) = 1


\* the (name, measurement unit) of an amount record's ingredient
KeyOf(record) ==
    <<Ingredients[record.ingredient].name,
      Ingredients[record.ingredient].measurement_unit>>

\* the amounts of the records of one recipe's list that have key k, summed
RECURSIVE RecipeTotal(_, _)
RecipeTotal(amounts, k) ==
    IF amounts = <<>> THEN 0
    ELSE (IF KeyOf(Head(amounts)) = k THEN Head(amounts).amount ELSE 0)
         + RecipeTotal(Tail(amounts), k)

\* the same over a set of recipes, each recipe once
RECURSIVE CartTotal(_, _)
CartTotal(pks, k) ==
    IF pks = {} THEN 0
    ELSE LET pk == CHOOSE x \in pks : TRUE
         IN RecipeTotal(recipes[pk].amounts, k) + CartTotal(pks \ {pk}, k)

\* C8: the shopping list of user u has exactly one row per (ingredient name,
\* measurement unit) occurring in an amount record of a recipe in u's cart,
\* and the row's total is the sum of the amounts of those records over the
\* recipes in u's cart, each recipe once and no other recipe.
C8_ShoppingListTotals ==
    (last.op = "download_shopping_cart" /\ last.status = 200) =>
        LET cart == { pk \in DOMAIN recipes :
                        Count(ShoppingCart, <<last.user, pk>>) > 0 }
            keys == UNION { { KeyOf(recipes[pk].amounts[i]) :
                                i \in DOMAIN recipes[pk].amounts } : pk \in cart }
        IN /\ { <<row[1], row[2]>> : row \in last.data } = keys
           /\ \A row \in last.data : row[3] = CartTotal(cart, <<row[1], row[2]>>)
           /\ \A x, y \in last.data : (x[1] = y[1] /\ x[2] = y[2]) => x = y

\* the cart {soup (flour 2), cake (flour 1, egg 2)} gives flour 3 and egg 2,
\* while another user's cart holds a recipe too
C8_FlourAndEgg ==
    /\ last.op = "download_shopping_cart"
    /\ last.data = { <<"flour", "g", 3>>, <<"egg", "pc", 2>> }
    /\ \E row \in DOMAIN ShoppingCart : row[1] # last.user

\* C9: set_password with a current_password that is not the requester's
\* password is answered 400 with the key current_password and changes no
\* user's password, whoever the requester is.
C9_WrongPasswordChangesNothing ==
    [][ ( /\ last'.op = "set_password"
          /\ IsAuthenticated(last'.user)
          /\ ~check_password(last'.user, last'.args.current_password) )
        => ( /\ last'.status = 400
             /\ last'.key = "current_password"
             /\ passwords' = passwords ) ]_vars

\* C9, the part the code keeps: for a requester who is not staff.
C9_NonStaffWrongPassword ==
    [][ ( /\ last'.op = "set_password"
          /\ IsAuthenticated(last'.user)
          /\ last'.user \notin Staff
          /\ ~check_password(last'.user, last'.args.current_password) )
        => ( /\ last'.status = 400
             /\ last'.key = "current_password"
             /\ passwords' = passwords ) ]_vars

\* C10: for an authenticated requester the list with is_favorited=1 holds
\* only recipes of the requester's Favorite rows and the list with
\* is_in_shopping_cart=1 only recipes of the requester's ShoppingCart rows,
\* each also when both flags are given; without credentials the flags are
\* ignored.
C10_FlagsRestrict ==
    last.op = "recipes" =>
        IF IsAuthenticated(last.user)
        THEN /\ last.args.is_favorited = "1"
                    => last.data \subseteq FavoritePks(last.user)
             /\ last.args.is_in_shopping_cart = "1"
                    => last.data \subseteq ShoppingCartPks(last.user)
        ELSE last.data = RecipeFilter(DOMAIN recipes, last.args)


\* C10, the part the code keeps: one flag given alone restricts the list to
\* the requester's rows, and a request without credentials ignores the flags.
C10_OneFlagRestricts ==
    last.op = "recipes" =>
        IF IsAuthenticated(last.user)
        THEN /\ (last.args.is_favorited = "1" /\ last.args.is_in_shopping_cart # "1")
                    => last.data \subseteq FavoritePks(last.user)
             /\ (last.args.is_in_shopping_cart = "1" /\ last.args.is_favorited # "1")
                    => last.data \subseteq ShoppingCartPks(last.user)
        ELSE last.data = RecipeFilter(DOMAIN recipes, last.args)

\* C7: whatever the interleaving of favorite, shopping_cart and subscribe
\* requests, no table holds two rows with the same (user, recipe), or the
\* same (user, author).
C7_RowsUnique ==
    /\ \A row \in DOMAIN Favorite : Favorite[row] <= 1
    /\ \A row \in DOMAIN ShoppingCart : ShoppingCart[row] <= 1
    /\ \A row \in DOMAIN Subscription : Subscription[row] <= 1

\* two workers have served the same favorite POST at once, both past the
\* lookup before either created the row: one created it, the other met the
\* constraint, and one row is stored
C7_RacedPosts ==
    /\ inflight["w1"].op = "favorite"
    /\ inflight["w1"].method = "POST"
    /\ inflight["w1"].pc = "done"
    /\ inflight["w1"].status = 201
    /\ inflight["w2"] = [inflight["w1"] EXCEPT !.pc = "retry", !.status = 0]
    /\ Count(Favorite, <<inflight["w1"].user, inflight["w1"].pk>>) = 1

\* an update request the handler takes up: the requester may update the
\* stored recipe, the payload is valid and every ingredient it names exists
UpdateAccepted(req) ==
    /\ req.op = "recipe"
    /\ req.method \in {"PUT", "PATCH"}
    /\ IsAuthenticated(req.user)
    /\ Exists(req.pk)
    /\ req.method = "PATCH" => recipes[req.pk].author = req.user
    /\ is_valid(req.args)
    /\ AmountsFound(req.args.ingredients)

\* C11: an update of recipe r with tag list T replaces the full tag set:
\* afterwards r's tag set is exactly the set of the tags in T, no tag held
\* before and absent from T remains, and the tag sets of the other recipes
\* are as before.
C11_UpdateReplacesTags ==
    [][ UpdateAccepted(last')
        => /\ recipes'[last'.pk].tags = Range(last'.args.tags)
           /\ \A pk \in DOMAIN recipes \ {last'.pk} :
                 recipes'[pk].tags = recipes[pk].tags ]_vars

\* C11, what the code does: no update request is answered 200, and every
\* update leaves every recipe's tag set as it was.
C11_UpdateKeepsTags ==
    [][ (last'.op = "recipe" /\ last'.method \in {"PUT", "PATCH"})
        => /\ last'.status # 200
           /\ \A pk \in DOMAIN recipes : recipes'[pk].tags = recipes[pk].tags ]_vars

\* a create request the handler takes up
CreateAccepted(req) ==
    /\ req.op = "recipe"
    /\ req.method = "POST"
    /\ IsAuthenticated(req.user)
    /\ is_valid(req.args)
    /\ AmountsFound(req.args.ingredients)

\* the (ingredient id, amount) entries of a read form, of a payload's list
\* and of a recipe's stored amount records, in order
ReadEntries(data) ==
    [i \in DOMAIN data.ingredients |->
        <<data.ingredients[i].id, data.ingredients[i].amount>>]

PayloadEntries(ingredients) ==
    [i \in DOMAIN ingredients |-> <<ingredients[i].id, ingredients[i].amount>>]

StoredEntries(recipe) ==
    [i \in DOMAIN recipe.amounts |->
        <<recipe.amounts[i].ingredient, recipe.amounts[i].amount>>]

\* C12: write/read round trip of ingredients: the read form of a stored
\* recipe has one entry per stored amount record, each with the stored
\* amount, and the read form a create or update answers with lists exactly
\* the payload's (ingredient, amount) entries, none from before the update.
C12_RoundTrip ==
    [][ /\ (last'.op = "recipe" /\ last'.method = "GET" /\ Exists(last'.pk))
            => /\ last'.status = 200
               /\ ReadEntries(last'.data) = StoredEntries(recipes'[last'.pk])
        /\ (CreateAccepted(last') \/ UpdateAccepted(last'))
            => /\ last'.status \in {200, 201}
               /\ ReadEntries(last'.data) = PayloadEntries(last'.args.ingredients)
               /\ StoredEntries(recipes'[last'.pk])
                     = PayloadEntries(last'.args.ingredients) ]_vars

\* C12, what the code does: no request answers with the read form of a
\* stored recipe; a create stores the payload's entries, an update leaves
\* the amount records that were stored before it.
C12_NoReadForm ==
    [][ /\ (last'.op = "recipe" /\ last'.method = "GET" /\ Exists(last'.pk))
            => last'.status = 500
        /\ CreateAccepted(last')
            => /\ last'.status = 500
               /\ StoredEntries(recipes'[last'.pk])
                     = PayloadEntries(last'.args.ingredients)
        /\ UpdateAccepted(last')
            => /\ last'.status = 500
               /\ recipes'[last'.pk].amounts = recipes[last'.pk].amounts ]_vars

\* C13: a favorite or shopping_cart request (POST or DELETE) of an
\* authenticated user that names a recipe id no stored recipe has is
\* answered 400 with the key "errors", never 404, and leaves the Favorite
\* and ShoppingCart tables as they were.
C13_MissingRecipeIs400 ==
    [][ ( /\ last'.op \in {"favorite", "shopping_cart"}
          /\ last'.method \in {"POST", "DELETE"}
          /\ IsAuthenticated(last'.user)
          /\ last'.pk \notin DOMAIN recipes )
        => ( /\ last'.status = 400
             /\ last'.key = "errors"
             /\ Favorite' = Favorite
             /\ ShoppingCart' = ShoppingCart ) ]_vars

\* a POST naming a recipe id that is not stored, refused with 400 "errors"
\* while the requester holds rows of a stored recipe in both tables
C13_MissingRecipeRefused ==
    /\ last.op = "favorite"
    /\ last.method = "POST"
    /\ last.pk \notin DOMAIN recipes
    /\ last.status = 400
    /\ last.key = "errors"
    /\ \E pk \in DOMAIN recipes :
          /\ Count(Favorite, <<last.user, pk>>) = 1
          /\ Count(ShoppingCart, <<last.user, pk>>) = 1

\* every row references a stored recipe and stored users
ReferencesHold ==
    /\ \A row \in DOMAIN Favorite : UserExists(row[1]) /\ Exists(row[2])
    /\ \A row \in DOMAIN ShoppingCart : UserExists(row[1]) /\ Exists(row[2])
    /\ \A row \in DOMAIN Subscription : UserExists(row[1]) /\ UserExists(row[2])
    /\ \A x \in AmountRows : Exists(x[1])
    /\ \A pk \in DOMAIN recipes : UserExists(recipes[pk].author)

\* C14: in every state reached by creates, updates, toggles, subscriptions
\* and deletes of recipes and users, every Favorite, ShoppingCart and
\* amount row references a stored recipe, every Favorite, ShoppingCart and
\* Subscription row references stored users and every recipe's author is
\* stored; a recipe's delete removes exactly the rows that reference it
\* and leaves the other recipes and their rows.
C14_ReferentialIntegrity ==
    /\ []ReferencesHold
    /\ [][ ( /\ last'.op = "recipe"
             /\ last'.method = "DELETE"
             /\ last'.status = 204 )
           => ( /\ recipes' = Without(recipes, last'.pk)
                /\ \A row \in DOMAIN Favorite \cup DOMAIN Favorite' :
                      Count(Favorite', row)
                        = IF row[2] = last'.pk THEN 0 ELSE Count(Favorite, row)
                /\ \A row \in DOMAIN ShoppingCart \cup DOMAIN ShoppingCart' :
                      Count(ShoppingCart', row)
                        = IF row[2] = last'.pk THEN 0 ELSE Count(ShoppingCart, row)
                /\ Subscription' = Subscription
                /\ passwords' = passwords ) ]_vars

\* a recipe with rows in both tables deleted after a user was deleted,
\* while a row of another recipe stays
C14_DeletedWithRows ==
    /\ last.op = "recipe"
    /\ last.method = "DELETE"
    /\ last.status = 204
    /\ DOMAIN passwords # Users
    /\ ~Exists(last.pk)
    /\ \E row \in DOMAIN Favorite : Exists(row[2])

\* the lines of the rows: every line of the canvas after the title
RowLines(canvas) == Tail(canvas.lines)

\* the layout of a finished document but for the bottom of the page: the
\* title first, then one line per row in input order, and lines that
\* follow each other on a page 25 apart
LaidOut(rows, canvas) ==
    /\ Len(canvas.lines) = Len(rows) + 1
    /\ canvas.lines[1].text = "title"
    /\ \A i \in DOMAIN rows : RowLines(canvas)[i].text = LineText(rows[i])
    /\ \A i \in 1..(Len(rows) - 1) :
          RowLines(canvas)[i + 1].page = RowLines(canvas)[i].page
            => RowLines(canvas)[i].y - RowLines(canvas)[i + 1].y = 25
    /\ \A i \in DOMAIN canvas.lines : canvas.lines[i].page \in 1..canvas.pages

\* C15: for every number of aggregated rows the document has the title
\* line and exactly one line per row in input order, lines that follow
\* each other 25 units apart, and a new page once the page is full: no line
\* is drawn below the bottom of its page (y < 0).
C15_Layout ==
    (last.op = "get_pdf" /\ last.status = 200)
        => /\ LaidOut(last.args, last.data.canvas)
           /\ \A i \in DOMAIN last.data.canvas.lines :
                 last.data.canvas.lines[i].y >= 0

\* C15, what the code does: the layout holds but for the bottom of the
\* page; the document has one page whatever the number of rows, and every
\* row from the 30th on is drawn below it.
C15_OnePage ==
    (last.op = "get_pdf" /\ last.status = 200)
        => /\ LaidOut(last.args, last.data.canvas)
           /\ last.data.canvas.pages = 1
           /\ \A i \in DOMAIN last.args :
                 RowLines(last.data.canvas)[i].y < 0 <=> i >= 30

\* a create or update request that passes the permission checks and the
\* validation and names an ingredient that is not stored
NamesMissingIngredient(req) ==
    /\ req.op = "recipe"
    /\ req.method \in {"POST", "PUT", "PATCH"}
    /\ IsAuthenticated(req.user)
    /\ req.method # "POST" => Exists(req.pk)
    /\ req.method = "PATCH" => recipes[req.pk].author = req.user
    /\ is_valid(req.args)
    /\ ~AmountsFound(req.args.ingredients)

\* C16: a recipe create or update request that fails because an ingredient
\* id of the payload does not exist leaves the store as it was: a failed
\* create stores no recipe, a failed update leaves the recipe's fields, its
\* amount records and its tag set unchanged.
C16_FailedWriteChangesNothing ==
    [][ NamesMissingIngredient(last')
        => ( /\ last'.status \notin {200, 201}
             /\ recipes' = recipes ) ]_vars

\* C16, what the code does: the request fails, but the create has stored
\* the recipe, without amount records and tags, and the update has saved
\* the name and the author and kept the amount records and tags.
C16_FailedWriteIsPartial ==
    [][ NamesMissingIngredient(last')
        => IF last'.method = "POST"
           THEN /\ last'.status = 404
                /\ recipes' = (last'.pk :>
                      [author |-> last'.user, name |-> last'.args.name,
                       tags |-> {}, amounts |-> <<>>]) @@ recipes
           ELSE /\ last'.status = 500
                /\ recipes' = [recipes EXCEPT ![last'.pk] =
                      [@ EXCEPT !.name = last'.args.name,
                                !.author = last'.user]] ]_vars

\* both workers have answered a POST subscribe of the same user to the
\* same other user
BothAnswered ==
    /\ inflight["w1"].op = "subscribe"
    /\ inflight["w1"].method = "POST"
    /\ inflight["w1"].pc = "done"
    /\ inflight["w1"].user # inflight["w1"].pk
    /\ inflight["w2"].op = "subscribe"
    /\ inflight["w2"].method = "POST"
    /\ inflight["w2"].pc = "done"
    /\ inflight["w2"].user = inflight["w1"].user
    /\ inflight["w2"].pk = inflight["w1"].pk

\* C17: of two POST subscribe requests for the same (user, author), served
\* with their steps interleaved from a table without the row, at most one
\* is answered 201, the other is rejected with the validation error, and
\* exactly one Subscription row of the pair is stored.
C17_OneSubscribed ==
    BothAnswered
        => /\ ~(inflight["w1"].status = 201 /\ inflight["w2"].status = 201)
           /\ inflight["w1"].status \in {201, 400}
           /\ inflight["w2"].status \in {201, 400}
           /\ Count(Subscription, <<inflight["w1"].user, inflight["w1"].pk>>) = 1

\* C17, what the code does: exactly one row is stored, and a request that
\* is past the existence test when the other creates the row is answered
\* 201 as well.
C17_OneRowStored ==
    BothAnswered
        => /\ inflight["w1"].status \in {201, 400}
           /\ inflight["w2"].status \in {201, 400}
           /\ Count(Subscription, <<inflight["w1"].user, inflight["w1"].pk>>) = 1

=============================================================================
